---- MODULE Spec2Model ----
(***************************************************************************)
(* A model of negatives_generator.py: the item normalizer (parse_input,    *)
(* get_multiline_input), the generators (generate_negated_list,            *)
(* generate_bad_descriptor_list, combine_lists, generate_positive_list,    *)
(* build_versions) and the session driver (main).                          *)
(*                                                                         *)
(* A Python str is a sequence of one-character strings, so that len(),     *)
(* strip(), split(), join() and the regular expressions act on characters. *)
(* A list of str is a sequence of such sequences.                          *)
(***************************************************************************)
EXTENDS Integers, Sequences, FiniteSets, TLC

VARIABLES
    pc,                     \* where the program is: a prompt of main, or call/returned
    raised,                 \* the uncaught exception that ended the run, or "none"
    raw_input,              \* main: the line read at the main prompt
    items,                  \* main / get_multiline_input: the item list
    lines_read,             \* the lines input() returned inside get_multiline_input
    choice,                 \* main: the line read at the reshuffle prompt
    printed,                \* what the last step printed: "nothing", "notice",
                            \* "versions" or "randomized"
    passes,                 \* build_versions calls made in the current round
    fn,                     \* the function under call (function harness)
    combination_type,       \* combine_lists: its mode argument
    input_items,            \* build_versions and the generators: input_items
    descriptors,            \* main / generators: the descriptor catalog
    negated_list,           \* build_versions: negated_list
    bad_descriptor_list,    \* build_versions: bad_descriptor_list
    length_limit,           \* combine_lists: length_limit
    combined_negative_list, \* build_versions: combined_negative_list
    positive_list           \* build_versions: positive_list

vars == <<pc, raised, raw_input, items, lines_read, choice, printed, passes, fn,
          combination_type, input_items, descriptors, negated_list,
          bad_descriptor_list, length_limit, combined_negative_list,
          positive_list>>

-----------------------------------------------------------------------------
(* Characters and str methods *)

\* The characters str.strip() and the regex class \s treat as whitespace.
Whitespace == {" ", "\t", "\n"}

UpperLetters == <<"A","B","C","D","E","F","G","H","I","J","K","L","M",
                  "N","O","P","Q","R","S","T","U","V","W","X","Y","Z">>

LowerLetters == <<"a","b","c","d","e","f","g","h","i","j","k","l","m",
                  "n","o","p","q","r","s","t","u","v","w","x","y","z">>

\* str.lower(), per character
lower_char(c) ==
    IF \E i \in 1..Len(UpperLetters) : UpperLetters[i] = c
    THEN LowerLetters[CHOOSE i \in 1..Len(UpperLetters) : UpperLetters[i] = c]
    ELSE c

\* str.upper(), per character
upper_char(c) ==
    IF \E i \in 1..Len(LowerLetters) : LowerLetters[i] = c
    THEN UpperLetters[CHOOSE i \in 1..Len(LowerLetters) : LowerLetters[i] = c]
    ELSE c

lower(s) == [i \in 1..Len(s) |-> lower_char(s[i])]

upper(s) == [i \in 1..Len(s) |-> upper_char(s[i])]

RECURSIVE lstrip(_)
lstrip(s) ==
    IF s # <<>> /\ Head(s) \in Whitespace THEN lstrip(Tail(s)) ELSE s

RECURSIVE rstrip(_)
rstrip(s) ==
    IF s # <<>> /\ s[Len(s)] \in Whitespace
    THEN rstrip(SubSeq(s, 1, Len(s) - 1))
    ELSE s

\* str.strip()
strip(s) == rstrip(lstrip(s))

\* str.split(sep) for a one-character sep: the pieces between consecutive
\* separators (and the two ends of s), empty pieces kept.
split(s, sep) ==
    LET positions == SelectSeq([i \in 1..Len(s) |-> i], LAMBDA i : s[i] = sep)
        cuts == <<0>> \o positions \o <<Len(s) + 1>>
    IN  [k \in 1..(Len(cuts) - 1) |-> SubSeq(s, cuts[k] + 1, cuts[k + 1] - 1)]

\* sep.join(list): the elements in order with sep between neighbours (the
\* list is put together half by half).
RECURSIVE join(_, _)
join(sep, list) ==
    IF list = <<>> THEN <<>>
    ELSE IF Len(list) = 1 THEN list[1]
    ELSE LET h == Len(list) \div 2
         IN  join(sep, SubSeq(list, 1, h)) \o sep
                 \o join(sep, SubSeq(list, h + 1, Len(list)))

-----------------------------------------------------------------------------
(* parse_input *)

\* The first position at or after i of s that does not hold a character of set.
RECURSIVE skip(_, _, _)
skip(s, i, set) ==
    IF i <= Len(s) /\ s[i] \in set THEN skip(s, i + 1, set) ELSE i

\* re.sub(r'[;]+', ',', s): every maximal run of semicolons becomes one comma.
RECURSIVE sub_semicolons(_, _)
sub_semicolons(s, i) ==
    IF i > Len(s) THEN <<>>
    ELSE IF s[i] = ";" THEN <<",">> \o sub_semicolons(s, skip(s, i, {";"}))
    ELSE <<s[i]>> \o sub_semicolons(s, i + 1)

\* re.sub(r'\s*,\s*', ',', s): scanning from the left, a comma together with the
\* whitespace run before it and the whitespace run after it becomes one comma.
RECURSIVE sub_comma_spacing(_, _)
sub_comma_spacing(s, i) ==
    IF i > Len(s) THEN <<>>
    ELSE LET j == skip(s, i, Whitespace)
         IN  IF j <= Len(s) /\ s[j] = ","
             THEN <<",">> \o sub_comma_spacing(s, skip(s, j + 1, Whitespace))
             ELSE <<s[i]>> \o sub_comma_spacing(s, i + 1)

\* [item.strip() for item in pieces if item.strip()]
strip_and_filter(pieces) ==
    LET stripped == [i \in 1..Len(pieces) |-> strip(pieces[i])]
    IN  SelectSeq(stripped, LAMBDA p : p # <<>>)

parse_input(raw) ==
    LET normalized == sub_comma_spacing(sub_semicolons(raw, 1), 1)
    IN  strip_and_filter(split(normalized, ","))

-----------------------------------------------------------------------------
(* random *)

\* Lists up to this length are shuffled into every one of their permutations.
MaxShuffleAll == 5

\* A longer list (the built-in catalog) is shuffled into this many of its
\* rotations and into the reversal of each.
ShuffleSample == 1

remove_at(s, i) == SubSeq(s, 1, i - 1) \o SubSeq(s, i + 1, Len(s))

RECURSIVE permutations(_)
permutations(s) ==
    IF s = <<>> THEN {<<>>}
    ELSE UNION { { <<s[i]>> \o p : p \in permutations(remove_at(s, i)) } :
                 i \in 1..Len(s) }

rotate(s, k) == [i \in 1..Len(s) |-> s[((i - 1 + k) % Len(s)) + 1]]

reverse(s) == [i \in 1..Len(s) |-> s[Len(s) + 1 - i]]

\* random.shuffle(x): the orders x may be left in.
shuffle(s) ==
    IF Len(s) <= MaxShuffleAll THEN permutations(s)
    ELSE UNION { {rotate(s, k), reverse(rotate(s, k))} : k \in 0..(ShuffleSample - 1) }

-----------------------------------------------------------------------------
(* The generators *)

negative_modifiers == { <<"n","o","t">>, <<"n","o">>, <<"u","n","-">> }

\* f"{a} {b}"
term(a, b) == a \o <<" ">> \o b

\* The lists generate_negated_list may return: random.choice draws a modifier
\* for each item independently.
generate_negated_list(items_arg) ==
    { [i \in 1..Len(items_arg) |-> term(m[i], items_arg[i])] :
      m \in [1..Len(items_arg) -> negative_modifiers] }

\* The loop run once per item instead of once per descriptor.
bad_terms_per_item(shuffled_descriptors, items_arg) ==
    [i \in 1..Len(items_arg) |->
        term(shuffled_descriptors[((i - 1) % Len(shuffled_descriptors)) + 1],
             items_arg[((i - 1) % Len(items_arg)) + 1])]

\* The loop of generate_bad_descriptor_list over an already shuffled catalog;
\* desc_index and item_index both equal the loop counter (0-based i - 1).
bad_terms(shuffled_descriptors, items_arg) ==
    [i \in 1..Len(shuffled_descriptors) |->
        term(shuffled_descriptors[((i - 1) % Len(shuffled_descriptors)) + 1],
             items_arg[((i - 1) % Len(items_arg)) + 1])]

\* A descriptor drawn with random.choice for every term, instead of a shuffle.
generate_bad_descriptor_list_choice(items_arg, descs) ==
    { [i \in 1..Len(descs) |->
          term(descs[c[i]], items_arg[((i - 1) % Len(items_arg)) + 1])] :
      c \in [1..Len(descs) -> 1..Len(descs)] }

\* The lists generate_bad_descriptor_list may return, one per shuffle.
generate_bad_descriptor_list(items_arg, descs) ==
    { bad_terms(shuffled_descriptors, items_arg) :
      shuffled_descriptors \in shuffle(descs) }

\* The test string measured without the separator before the new term.
join_appended_no_separator(combined_terms, joined, bad_term) == joined \o bad_term

\* ", ".join(test_list) for test_list = combined_terms + [bad_term], from
\* joined = ", ".join(combined_terms).
join_appended(combined_terms, joined, bad_term) ==
    IF combined_terms = <<>> THEN bad_term
    ELSE joined \o <<",", " ">> \o bad_term

\* The loop with `continue` where the code has `break`.
RECURSIVE combine_loop_continue(_, _, _, _, _)
combine_loop_continue(combined_terms, joined, bad_list, i, limit) ==
    IF i > Len(bad_list) THEN combined_terms
    ELSE LET test_list == Append(combined_terms, bad_list[i])
             test_string == IF combined_terms = <<>> THEN bad_list[i]
                            ELSE joined \o <<",", " ">> \o bad_list[i]
         IN  IF Len(test_string) > limit
             THEN combine_loop_continue(combined_terms, joined, bad_list, i + 1, limit)
             ELSE combine_loop_continue(test_list, test_string, bad_list, i + 1, limit)

\* The for loop of combine_lists from bad_list[i] on, with its break. joined is
\* ", ".join(combined_terms), carried along so that each turn builds
\* test_string from it instead of joining the whole list again.
RECURSIVE combine_loop(_, _, _, _, _)
combine_loop(combined_terms, joined, bad_list, i, limit) ==
    IF i > Len(bad_list) THEN combined_terms
    ELSE LET test_list == Append(combined_terms, bad_list[i])
             test_string == join_appended(combined_terms, joined, bad_list[i])
         IN  IF Len(test_string) > limit
             THEN combined_terms
             ELSE combine_loop(test_list, test_string, bad_list, i + 1, limit)

\* combine_lists holding the negated terms to the budget as well.
combine_lists_budget_negated(negated, bad_list, limit) ==
    combine_loop(<<>>, <<>>, negated \o bad_list, 1, limit)

\* combine_lists in "negated_first" mode
combine_lists(negated, bad_list, limit) ==
    combine_loop(negated, join(<<",", " ">>, negated), bad_list, 1, limit)

\* combine_lists in any other mode reads combined_terms before assigning it.
combine_lists_raises(mode) ==
    IF mode = "negated_first" THEN "none" ELSE "UnboundLocalError"

\* The cycle started one item late.
generate_positive_list_late(items_arg, combined) ==
    [i \in 1..Len(combined) |-> items_arg[(i % Len(items_arg)) + 1]]

generate_positive_list(items_arg, combined) ==
    [i \in 1..Len(combined) |-> items_arg[((i - 1) % Len(items_arg)) + 1]]

\* The budget build_versions passes to combine_lists.
BuildLimit == 1000

\* i % len(input_items) divides by zero when a loop body runs on an empty list.
build_versions_raises(items_arg, descs) ==
    IF items_arg = <<>> /\ descs # <<>> THEN "ZeroDivisionError" ELSE "none"

\* What one call of build_versions may leave in its locals.
build_versions(items_arg, descs) ==
    IF build_versions_raises(items_arg, descs) # "none"
    THEN { [negated_list |-> <<>>, bad_descriptor_list |-> <<>>,
            combined_negative_list |-> <<>>, positive_list |-> <<>>] }
    ELSE { LET combined == combine_lists(n, b, BuildLimit)
           IN  [negated_list |-> n, bad_descriptor_list |-> b,
                combined_negative_list |-> combined,
                positive_list |-> generate_positive_list(items_arg, combined)] :
           n \in generate_negated_list(items_arg),
           b \in generate_bad_descriptor_list(items_arg, descs) }

-----------------------------------------------------------------------------
(* main: the built-in catalog *)

\* The text block raw_descs, character by character.
raw_descs == <<
    "\n", " ", " ", " ", " ", "H", "o", "r", "r", "o", "r", "c", "o", "r",
    "e", ",", " ", "R", "o", "c", "k", "a", "b", "i", "l", "l", "y", ",", " ",
    "S", "o", "u", "n", "d", "t", "r", "a", "c", "k", ",", " ", "k", "i", "d",
    "'", "s", ",", " ", "c", "h", "i", "l", "d", "r", "e", "n", "'", "s", ",",
    " ", "C", "h", "r", "i", "s", "t", "m", "a", "s", ",", " ", "h", "o", "l",
    "i", "d", "a", "y", ",", " ", "j", "i", "n", "g", "l", "e", ",", " ", "o",
    "l", "d", "i", "e", "s", ",", " ", "T", "e", "e", "n", ",", " ", "V", "o",
    "c", "a", "l", "o", "i", "d", ",", " ", "i", "d", "o", "l", ",", " ", "K",
    "-", "P", "o", "p", ",", " ", "m", "a", "n", "d", "a", "r", "i", "n", ",",
    " ", "L", "G", "B", "T", ",", " ", "S", "w", "i", "n", "g", ",", " ", "C",
    "o", "u", "n", "t", "r", "y", ",", " ", "A", "n", "i", "m", "e", ",", " ",
    "B", "l", "a", "c", "k", " ", "M", "e", "t", "a", "l", ",", " ", "S", "t",
    "r", "a", "i", "g", "h", "t", " ", "E", "d", "g", "e", ",", " ", "P", "s",
    "y", "c", "h", "o", "b", "i", "l", "l", "y", ",", " ", "m", "e", "d", "i",
    "o", "c", "r", "e", ",", " ", "P", "a", "r", "o", "d", "y", ",", " ", "h",
    "u", "m", "o", "r", "o", "u", "s", ",", " ", "C", "o", "m", "e", "d", "y",
    ",", " ", "R", "e", "g", "g", "a", "e", "t", "ó", "n", ",", " ", "D", "r",
    "i", "l", "l", ",", " ", "F", "u", "t", "u", "r", "e", " ", "B", "a", "s",
    "s", ",", " ", "B", "i", "g", " ", "R", "o", "o", "m", " ", "H", "o", "u",
    "s", "e", ",", " ", "D", "u", "b", "s", "t", "e", "p", ",", " ", "B", "o",
    "u", "n", "c", "e", ",", " ", "H", "a", "r", "d", "s", "t", "y", "l", "e",
    ",", " ", "T", "r", "a", "n", "c", "e", ",", " ", "J", "e", "r", "s", "e",
    "y", " ", "C", "l", "u", "b", ",", " ", "F", "o", "o", "t", "w", "o", "r",
    "k", ",", " ", "C", "h", "i", "p", "t", "u", "n", "e", ",", " ", "P", "s",
    "y", "t", "r", "a", "n", "c", "e", ",", " ", "M", "o", "o", "m", "b", "a",
    "h", "t", "o", "n", ",", " ", "R", "i", "d", "d", "i", "m", " ", "D", "u",
    "b", "s", "t", "e", "p", ",", " ", "T", "e", "c", "h", "-", "H", "o", "u",
    "s", "e", ",", " ", "P", "h", "o", "n", "k", ",", " ", "E", "l", "e", "c",
    "t", "r", "o", "-", "s", "w", "i", "n", "g", ",", " ", "C", "u", "m", "b",
    "i", "a", ",", " ", "T", "a", "n", "g", "o", ",", " ", "B", "o", "s", "s",
    "a", " ", "N", "o", "v", "a", ",", " ", "S", "a", "m", "b", "a", ",", " ",
    "D", "a", "n", "c", "e", "h", "a", "l", "l", ",", " ", "B", "h", "a", "n",
    "g", "r", "a", ",", " ", "D", "i", "s", "c", "o", ",", " ", "P", "o", "l",
    "k", "a", ",", " ", "V", "a", "p", "o", "r", "w", "a", "v", "e", ",", " ",
    "M", "i", "n", "i", "m", "a", "l", " ", "T", "e", "c", "h", "n", "o", ",",
    " ", "B", "l", "u", "e", "s", ",", " ", "S", "e", "a", " ", "S", "h", "a",
    "n", "t", "y", ",", " ", "L", "o", "-", "f", "i", " ", "H", "i", "p", "-",
    "H", "o", "p", ",", " ", "S", "y", "n", "t", "h", "w", "a", "v", "e", ",",
    " ", "K", "-", "p", "o", "p", "\n", " ", " ", " ", " " >>

\* [desc.strip() for desc in raw_descs.split(",") if desc.strip()]
parsed_descriptors == strip_and_filter(split(raw_descs, ","))

-----------------------------------------------------------------------------
(* get_multiline_input and main *)

kw_exit == <<"e","x","i","t">>
kw_multiline == <<"m","u","l","t","i","l","i","n","e">>
kw_END == <<"E","N","D">>
kw_random == <<"r","a","n","d","o","m">>

\* The loop keeping the terminator line among the items.
multiline_step_keeps_end(items_now, line_read) ==
    LET line == strip(line_read)
    IN  IF upper(line) = kw_END THEN [items |-> Append(items_now, line), done |-> TRUE]
        ELSE IF line # <<>> THEN [items |-> Append(items_now, line), done |-> FALSE]
        ELSE [items |-> items_now, done |-> FALSE]

\* One turn of the loop of get_multiline_input on the line input() returned:
\* the items after it, and whether the loop breaks.
multiline_step(items_now, line_read) ==
    LET line == strip(line_read)
    IN  IF upper(line) = kw_END THEN [items |-> items_now, done |-> TRUE]
        ELSE IF line # <<>> THEN [items |-> Append(items_now, line), done |-> FALSE]
        ELSE [items |-> items_now, done |-> FALSE]

no_output ==
    [negated_list |-> <<>>, bad_descriptor_list |-> <<>>,
     combined_negative_list |-> <<>>, positive_list |-> <<>>]

\* The build_versions locals hold what the call made in the step computed and
\* printed; a step that makes no call leaves them empty.
SetOutput(out) ==
    /\ negated_list' = out.negated_list
    /\ bad_descriptor_list' = out.bad_descriptor_list
    /\ combined_negative_list' = out.combined_negative_list
    /\ positive_list' = out.positive_list

\* main without its test for an empty item list.
rejects_nothing(its) == FALSE

\* main's test of the items before it builds: True when the round stops at
\* the "No non-empty items found" notice.
rejects(its) == Len(its) = 0

\* main from the end of normalization to its next input(): the notice and
\* `continue`, or the first build_versions call and the reshuffle prompt.
AfterNormalize(its) ==
    /\ items' = its
    /\ IF rejects(its)
       THEN /\ printed' = "notice"
            /\ pc' = "Prompting"
            /\ raised' = raised
            /\ passes' = 0
            /\ input_items' = <<>>
            /\ SetOutput(no_output)
       ELSE /\ passes' = 1
            /\ input_items' = its
            /\ raised' = build_versions_raises(its, descriptors)
            /\ printed' = IF raised' = "none" THEN "versions" ELSE "nothing"
            /\ pc' = IF raised' = "none" THEN "AwaitingReshuffleChoice" ELSE "Crashed"
            /\ \E out \in build_versions(its, descriptors) : SetOutput(out)

\* main reads a line at its main prompt. The previous round's choice is never
\* read again, so it is forgotten here.
Prompt(line) ==
    /\ pc = "Prompting"
    /\ raw_input' = line
    /\ lines_read' = <<>>
    /\ choice' = <<>>
    /\ UNCHANGED <<fn, combination_type, descriptors, length_limit>>
    /\ IF lower(line) = kw_exit
       THEN /\ pc' = "Done"
            /\ printed' = "nothing"
            /\ passes' = 0
            /\ input_items' = <<>>
            /\ SetOutput(no_output)
            /\ UNCHANGED <<items, raised>>
       ELSE IF lower(line) = kw_multiline
       THEN /\ pc' = "Multiline"
            /\ items' = <<>>
            /\ printed' = "nothing"
            /\ passes' = 0
            /\ input_items' = <<>>
            /\ SetOutput(no_output)
            /\ UNCHANGED raised
       ELSE AfterNormalize(parse_input(line))

\* Most lines one call of get_multiline_input reads before its END (driver).
MaxRoundLines == 1

\* get_multiline_input, called from main, reads a line.
MultilineLine(line) ==
    /\ pc = "Multiline"
    /\ fn = "main"
    /\ Len(lines_read) < MaxRoundLines \/ multiline_step(items, line).done
    /\ lines_read' = Append(lines_read, line)
    /\ UNCHANGED <<raw_input, choice, fn, combination_type, descriptors, length_limit>>
    /\ LET r == multiline_step(items, line)
       IN  IF r.done
           THEN AfterNormalize(r.items)
           ELSE /\ items' = r.items
                /\ UNCHANGED <<pc, raised, printed, passes, input_items,
                               negated_list, bad_descriptor_list,
                               combined_negative_list, positive_list>>

\* main asking for a choice again after the randomized pass.
ReshuffleChoiceAgain(line) ==
    /\ pc = "AwaitingReshuffleChoice"
    /\ pc' = IF lower(line) = kw_random THEN pc ELSE "Prompting"
    /\ choice' = line
    /\ UNCHANGED <<raised, raw_input, items, lines_read, fn,
                   combination_type, descriptors, length_limit>>
    /\ IF lower(line) = kw_random
       THEN \E shuffled_items \in shuffle(items) :
            /\ input_items' = shuffled_items
            /\ passes' = passes + 1
            /\ printed' = "randomized"
            /\ \E out \in build_versions(shuffled_items, descriptors) : SetOutput(out)
       ELSE /\ printed' = "nothing"
            /\ SetOutput(no_output)
            /\ UNCHANGED <<input_items, passes>>

\* main reads the reshuffle choice.
ReshuffleChoice(line) ==
    /\ pc = "AwaitingReshuffleChoice"
    /\ pc' = "Prompting"
    /\ choice' = line
    /\ UNCHANGED <<raised, raw_input, items, lines_read, fn,
                   combination_type, descriptors, length_limit>>
    /\ IF lower(line) = kw_random
       THEN \E shuffled_items \in shuffle(items) :
            /\ input_items' = shuffled_items
            /\ passes' = passes + 1
            /\ printed' = "randomized"
            /\ \E out \in build_versions(shuffled_items, descriptors) : SetOutput(out)
       ELSE /\ printed' = "nothing"
            /\ SetOutput(no_output)
            /\ UNCHANGED <<input_items, passes>>

\* input() finds stdin at end of file: it raises EOFError, which nothing in
\* the program catches, so the interpreter prints a traceback and exits with
\* status 1.
EndOfInput ==
    /\ pc \in {"Prompting", "Multiline", "AwaitingReshuffleChoice"}
    /\ pc' = "Crashed"
    /\ raised' = "EOFError"
    /\ printed' = "nothing"
    /\ UNCHANGED <<raw_input, items, lines_read, choice, passes, fn,
                   combination_type, input_items, descriptors, negated_list,
                   bad_descriptor_list, length_limit, combined_negative_list,
                   positive_list>>

\* The lines typed at the main prompt.
MainLines ==
    { kw_exit, <<"E","x","i","t">>, kw_multiline, <<"M","U","L","T","I","L","I","N","E">>, <<>>, <<" ",";"," ",",">>, <<"c","a","t",","," ","d","o","g">> }

\* The lines typed inside the multiline sub-mode.
RoundLines == { <<" ","x"," ">>, <<>>, kw_END, <<" ","e","n","d">> }

\* The lines typed at the reshuffle prompt.
ChoiceLines == { kw_random, <<"R","a","n","d","o","m">>, <<>>, <<"r","a","n","d","o","m"," ">> }

\* What main's locals hold before anything is read or printed.
Idle ==
    /\ raised = "none"
    /\ raw_input = <<>>
    /\ items = <<>>
    /\ lines_read = <<>>
    /\ choice = <<>>
    /\ printed = "nothing"
    /\ passes = 0

\* main up to its first input(): the catalog is parsed, nothing is read yet.
Init ==
    /\ Idle
    /\ pc = "Prompting"
    /\ fn = "main"
    /\ combination_type = "negated_first"
    /\ input_items = <<>>
    /\ descriptors = parsed_descriptors
    /\ negated_list = <<>>
    /\ bad_descriptor_list = <<>>
    /\ length_limit = BuildLimit
    /\ combined_negative_list = <<>>
    /\ positive_list = <<>>

Next ==
    \/ \E line \in MainLines : Prompt(line)
    \/ \E line \in RoundLines : MultilineLine(line)
    \/ \E line \in ChoiceLines : ReshuffleChoice(line)
    \/ EndOfInput

Spec == Init /\ [][Next]_vars

-----------------------------------------------------------------------------
(* The generators called on their own, on arguments drawn from bounded sets *)

MaxItems == 2
MaxCatalog == 3
MaxNegated == 2
MaxBad == 3
MaxBudget == 12
MaxTarget == 5

SeqsUpTo(S, n) == UNION { [1..k -> S] : k \in 0..n }

ItemPool == { <<"a">>, <<"b">> }
DescPool == { <<"X">>, <<"L","o","-","f","i">> }
TermPool == { <<"a">>, <<"b","b","b">> }

\* The locals a call does not take as arguments start empty.
NoLocals ==
    /\ Idle
    /\ negated_list = <<>>
    /\ bad_descriptor_list = <<>>
    /\ combined_negative_list = <<>>
    /\ positive_list = <<>>

InitGenerators ==
    /\ Idle
    /\ pc = "call"
    /\ fn \in {"generate_negated_list", "generate_bad_descriptor_list",
               "combine_lists", "generate_positive_list", "build_versions"}
    /\ combination_type \in {"negated_first", "bad_first"}
    /\ combination_type = "bad_first" => fn = "combine_lists"
    /\ input_items \in SeqsUpTo(ItemPool, MaxItems)
    /\ fn = "combine_lists" => input_items = <<>>
    /\ fn \in {"generate_bad_descriptor_list", "generate_positive_list",
               "build_versions"} => input_items # <<>>
    /\ descriptors \in SeqsUpTo(DescPool, MaxCatalog)
    /\ fn \notin {"generate_bad_descriptor_list", "build_versions"}
          => descriptors = <<>>
    /\ negated_list \in SeqsUpTo(TermPool, MaxNegated)
    /\ fn # "combine_lists" => negated_list = <<>>
    /\ bad_descriptor_list \in SeqsUpTo(TermPool, MaxBad)
    /\ fn # "combine_lists" => bad_descriptor_list = <<>>
    /\ length_limit \in (1..MaxBudget) \cup {BuildLimit}
    /\ fn = "combine_lists" <=> length_limit \in 1..MaxBudget
    /\ combined_negative_list \in SeqsUpTo(TermPool, MaxTarget)
    /\ fn # "generate_positive_list" => combined_negative_list = <<>>
    /\ positive_list = <<>>

Return ==
    /\ pc' = "returned"
    /\ UNCHANGED <<raw_input, items, lines_read, choice, printed, passes, fn,
                   combination_type, input_items, descriptors, length_limit>>

CallGenerateNegatedList ==
    /\ pc = "call" /\ fn = "generate_negated_list"
    /\ negated_list' \in generate_negated_list(input_items)
    /\ Return
    /\ UNCHANGED <<raised, bad_descriptor_list, combined_negative_list, positive_list>>

CallGenerateBadDescriptorList ==
    /\ pc = "call" /\ fn = "generate_bad_descriptor_list"
    /\ bad_descriptor_list' \in generate_bad_descriptor_list(input_items, descriptors)
    /\ Return
    /\ UNCHANGED <<raised, negated_list, combined_negative_list, positive_list>>

CallCombineLists ==
    /\ pc = "call" /\ fn = "combine_lists"
    /\ raised' = combine_lists_raises(combination_type)
    /\ combined_negative_list' =
          IF raised' = "none"
          THEN combine_lists(negated_list, bad_descriptor_list, length_limit)
          ELSE <<>>
    /\ Return
    /\ UNCHANGED <<negated_list, bad_descriptor_list, positive_list>>

CallGeneratePositiveList ==
    /\ pc = "call" /\ fn = "generate_positive_list"
    /\ positive_list' = generate_positive_list(input_items, combined_negative_list)
    /\ Return
    /\ UNCHANGED <<raised, negated_list, bad_descriptor_list, combined_negative_list>>

CallBuildVersions ==
    /\ pc = "call" /\ fn = "build_versions"
    /\ raised' = build_versions_raises(input_items, descriptors)
    /\ \E out \in build_versions(input_items, descriptors) : SetOutput(out)
    /\ Return

NextGenerators ==
    \/ CallGenerateNegatedList
    \/ CallGenerateBadDescriptorList
    \/ CallCombineLists
    \/ CallGeneratePositiveList
    \/ CallBuildVersions

SpecGenerators == InitGenerators /\ [][NextGenerators]_vars

-----------------------------------------------------------------------------
(* The item normalizer called on its own *)

MaxRawLen == 5
MaxLines == 3

RawAlphabet == { "a", " ", ",", ";" }

RawInputs == SeqsUpTo(RawAlphabet, MaxRawLen) \cup { <<"a",";"," ","b"," ",",",","," ","c">>, <<"c","a","t",","," ","d","o","g">> }

NormalizerLines ==
    { <<"x">>, <<" ","y"," ">>, <<>>, <<" "," ">>, kw_END, <<"e","n","d">>, <<" ","E","n","d"," ">>, <<"E","N","D","S">> }

InitNormalizer ==
    /\ NoLocals
    /\ combination_type = "negated_first"
    /\ input_items = <<>>
    /\ descriptors = <<>>
    /\ length_limit = BuildLimit
    /\ \/ /\ fn = "parse_input"
          /\ pc = "call"
       \/ /\ fn = "get_multiline_input"
          /\ pc = "Multiline"

\* parse_input(raw_input) is called and returns.
CallParseInput(raw) ==
    /\ pc = "call" /\ fn = "parse_input"
    /\ raw_input' = raw
    /\ items' = parse_input(raw)
    /\ pc' = "returned"
    /\ UNCHANGED <<raised, lines_read, choice, printed, passes, fn,
                   combination_type, input_items, descriptors, negated_list,
                   bad_descriptor_list, length_limit, combined_negative_list,
                   positive_list>>

\* get_multiline_input, called on its own, reads a line.
ReadLine(line) ==
    /\ pc = "Multiline" /\ fn = "get_multiline_input"
    /\ Len(lines_read) < MaxLines \/ multiline_step(items, line).done
    /\ lines_read' = Append(lines_read, line)
    /\ items' = multiline_step(items, line).items
    /\ pc' = IF multiline_step(items, line).done THEN "returned" ELSE pc
    /\ UNCHANGED <<raised, raw_input, choice, printed, passes, fn,
                   combination_type, input_items, descriptors, negated_list,
                   bad_descriptor_list, length_limit, combined_negative_list,
                   positive_list>>

NextNormalizer ==
    \/ \E raw \in RawInputs : CallParseInput(raw)
    \/ \E line \in NormalizerLines : ReadLine(line)
    \/ EndOfInput

SpecNormalizer == InitNormalizer /\ [][NextNormalizer]_vars

-----------------------------------------------------------------------------
(* Properties *)

RECURSIVE SumLen(_)
SumLen(list) == IF list = <<>> THEN 0 ELSE Len(Head(list)) + SumLen(Tail(list))

\* The number of characters of the list written with ", " between its terms.
JoinedLength(list) ==
    IF list = <<>> THEN 0 ELSE SumLen(list) + 2 * (Len(list) - 1)

CombineReturned ==
    pc = "returned" /\ fn = "combine_lists" /\ combination_type = "negated_first"

C2_WithinBudget ==
    (CombineReturned /\ JoinedLength(negated_list) <= length_limit)
        => JoinedLength(combined_negative_list) <= length_limit

C2_Witness ==
    /\ CombineReturned
    /\ negated_list # <<>>
    /\ Len(combined_negative_list) > Len(negated_list)
    /\ Len(combined_negative_list) < Len(negated_list) + Len(bad_descriptor_list)
    /\ JoinedLength(combined_negative_list) = length_limit

\* The smallest index of bad_list whose tentative append makes the joined
\* length exceed the budget; Len(bad_list) + 1 when none does.
FirstRejected(negated, bad_list, limit) ==
    LET over == { k \in 1..Len(bad_list) :
                    JoinedLength(negated \o SubSeq(bad_list, 1, k)) > limit }
    IN  IF over = {} THEN Len(bad_list) + 1
        ELSE CHOOSE k \in over : \A j \in over : k <= j

\* C9: the result of combine_lists is the negated list followed by
\* bad_list[0..k), k the first index whose tentative append exceeds the
\* budget: that term and every later one are excluded, and the accepted terms
\* keep their order.
C9_StopsAtFirstRejection ==
    CombineReturned =>
        combined_negative_list =
            negated_list \o SubSeq(bad_descriptor_list, 1,
                FirstRejected(negated_list, bad_descriptor_list, length_limit) - 1)

\* A term after the first rejected one would still fit, and is left out.
C9_Witness ==
    /\ CombineReturned
    /\ Len(combined_negative_list) > Len(negated_list)
    /\ \E j \in 1..Len(bad_descriptor_list) :
          /\ j > FirstRejected(negated_list, bad_descriptor_list, length_limit)
          /\ JoinedLength(Append(combined_negative_list, bad_descriptor_list[j]))
                <= length_limit

\* C3: generate_positive_list returns as many terms as the combined list has,
\* term i (from 0) being items[i mod len(items)]; so the good and the bad list
\* of build_versions have the same number of terms.
C3_PositiveMirrorsCombined ==
    /\ (pc = "returned" /\ fn = "generate_positive_list") =>
          /\ Len(positive_list) = Len(combined_negative_list)
          /\ \A i \in 0..(Len(positive_list) - 1) :
                positive_list[i + 1] = input_items[(i % Len(input_items)) + 1]
    /\ (pc = "returned" /\ fn = "build_versions") =>
          Len(positive_list) = Len(combined_negative_list)

C3_Witness ==
    /\ pc = "returned" /\ fn = "generate_positive_list"
    /\ input_items = << <<"a">>, <<"b">> >>
    /\ Len(combined_negative_list) = 5
    /\ positive_list = << <<"a">>, <<"b">>, <<"a">>, <<"b">>, <<"a">> >>

Bijections(n) == { p \in [1..n -> 1..n] : \A i, j \in 1..n : p[i] = p[j] => i = j }

\* C6: generate_bad_descriptor_list returns len(catalog) terms, term i being
\* "<permuted[i]> <items[i mod len(items)]>" for a permutation of the catalog
\* that uses every catalog position exactly once.
C6_OneTermPerDescriptor ==
    (pc = "returned" /\ fn = "generate_bad_descriptor_list") =>
        /\ Len(bad_descriptor_list) = Len(descriptors)
        /\ \E p \in Bijections(Len(descriptors)) :
              \A i \in 0..(Len(descriptors) - 1) :
                  bad_descriptor_list[i + 1] =
                      descriptors[p[i + 1]] \o <<" ">>
                          \o input_items[(i % Len(input_items)) + 1]

\* A single item, a catalog with a duplicate, and the catalog out of order.
C6_Witness ==
    /\ pc = "returned" /\ fn = "generate_bad_descriptor_list"
    /\ input_items = << <<"a">> >>
    /\ descriptors = << <<"X">>, <<"X">>, <<"L","o","-","f","i">> >>
    /\ bad_descriptor_list = << <<"X"," ","a">>, <<"L","o","-","f","i"," ","a">>, <<"X"," ","a">> >>

-----------------------------------------------------------------------------
(* Properties of the item normalizer *)

Min(S) == CHOOSE x \in S : \A y \in S : x <= y
Max(S) == CHOOSE x \in S : \A y \in S : x >= y

\* s without its leading and trailing whitespace.
Trimmed(s) ==
    LET solid == { i \in 1..Len(s) : s[i] \notin Whitespace }
    IN  IF solid = {} THEN <<>> ELSE SubSeq(s, Min(solid), Max(solid))

\* The segments of raw between its commas and semicolons, trimmed, the empty
\* ones dropped, in input order.
Segments(raw) ==
    LET marks == { i \in 1..Len(raw) : raw[i] \in {",", ";"} } \cup {0, Len(raw) + 1}
        starts == SelectSeq([i \in 1..(Len(raw) + 1) |-> i - 1], LAMBDA i : i \in marks)
        piece(k) == SubSeq(raw, starts[k] + 1, Min({ j \in marks : j > starts[k] }) - 1)
        pieces == [k \in 1..Len(starts) |-> Trimmed(piece(k))]
    IN  SelectSeq(pieces, LAMBDA x : x # <<>>)

\* The non-empty trimmed lines among lines, in order.
KeptLines(lines) ==
    SelectSeq([i \in 1..Len(lines) |-> Trimmed(lines[i])], LAMBDA x : x # <<>>)

SameLetters(s, t) == Len(s) = Len(t) /\ \A i \in 1..Len(s) : lower_char(s[i]) = lower_char(t[i])

ParseReturned == pc = "returned" /\ fn = "parse_input"

MultilineReturned == pc = "returned" /\ fn = "get_multiline_input"

\* Delimited mode: the trimmed non-empty segments, in order.
DelimitedModeRight ==
    ParseReturned =>
        /\ items = Segments(raw_input)
        /\ \A i \in 1..Len(items) :
              /\ items[i] # <<>>
              /\ items[i][1] \notin Whitespace
              /\ items[i][Len(items[i])] \notin Whitespace
        /\ raw_input = <<"a",";"," ","b"," ",",",","," ","c">> => items = << <<"a">>, <<"b">>, <<"c">> >>
        /\ Trimmed(raw_input) = <<>> => items = <<>>

\* C7 as stated: in multiline mode the terminator is the first line read that
\* is itself case-insensitively equal to "END".
C7_AsStated ==
    /\ DelimitedModeRight
    /\ MultilineReturned =>
          \E k \in 1..Len(lines_read) :
              /\ SameLetters(lines_read[k], kw_END)
              /\ \A j \in 1..(k - 1) : ~SameLetters(lines_read[j], kw_END)
              /\ items = KeptLines(SubSeq(lines_read, 1, k - 1))

\* C7, amended: the normalizer returns the non-empty trimmed items in input
\* order; in delimited mode the segments between commas and semicolons; in
\* multiline mode the lines read before the first line whose trimmed form is
\* case-insensitively equal to "END", which is the last line read and is not
\* included.
C7_NormalizerOutput ==
    /\ DelimitedModeRight
    /\ MultilineReturned =>
          \E k \in 1..Len(lines_read) :
              /\ SameLetters(Trimmed(lines_read[k]), kw_END)
              /\ \A j \in 1..(k - 1) : ~SameLetters(Trimmed(lines_read[j]), kw_END)
              /\ k = Len(lines_read)
              /\ items = KeptLines(SubSeq(lines_read, 1, k - 1))

\* Lines x, y and a padded terminator give [x, y].
C7_Witness ==
    /\ MultilineReturned
    /\ lines_read = << <<"x">>, <<" ","y"," ">>, <<" ","E","n","d"," ">> >>
    /\ items = << <<"x">>, <<"y">> >>

-----------------------------------------------------------------------------
(* Properties of the session driver *)

Scenario1 == fn = "main" /\ raw_input = <<"c","a","t",","," ","d","o","g">> /\ printed = "versions"

\* C4 as stated: the catalog parsed in main has 60 entries, so "cat, dog"
\* gives 2 negated terms, 60 bad-descriptor terms, at most 62 combined terms
\* and as many positive terms as combined ones.
C4_AsStated ==
    Scenario1 =>
        /\ Len(descriptors) = 60
        /\ Len(negated_list) = 2
        /\ Len(bad_descriptor_list) = 60
        /\ Len(combined_negative_list) <= 62
        /\ Len(positive_list) = Len(combined_negative_list)

\* C4, amended: the catalog parsed in main has 57 entries, so "cat, dog"
\* gives 2 negated terms, 57 bad-descriptor terms, at most 59 combined terms
\* and as many positive terms as combined ones.
C4_Scenario1 ==
    /\ fn = "main" => Len(descriptors) = 57
    /\ Scenario1 =>
          /\ items = << <<"c","a","t">>, <<"d","o","g">> >>
          /\ Len(negated_list) = 2
          /\ Len(bad_descriptor_list) = 57
          /\ Len(combined_negative_list) <= 59
          /\ Len(positive_list) = Len(combined_negative_list)

C4_Witness ==
    /\ Scenario1
    /\ pc = "AwaitingReshuffleChoice"
    /\ Len(combined_negative_list) = 59
    /\ bad_descriptor_list[1] = <<"K","-","p","o","p"," ","c","a","t">>

\* C5: build_versions runs only on a non-empty item list; a normalization
\* that yields no item, in either mode, prints the notice and goes back to the
\* main prompt with no generator run and no exception; the reshuffled pass
\* runs on a non-empty list too.
C5_GeneratorsNeedItems ==
    [][ /\ ( /\ pc \in {"Prompting", "Multiline"}
             /\ pc' \notin {"Multiline", "Done"}
             /\ raised' # "EOFError"
             /\ items' = <<>> )
           => ( /\ printed' = "notice"
                /\ pc' = "Prompting"
                /\ passes' = 0
                /\ raised' = "none" )
        /\ printed' = "notice" => items' = <<>>
        /\ passes' > 0 => (input_items' # <<>> /\ raised' \in {"none", "EOFError"})
        /\ printed' \in {"versions", "randomized"} => input_items' # <<>>
      ]_vars

\* The multiline mode read a blank line and END, and the notice was printed.
C5_Witness ==
    /\ fn = "main"
    /\ printed = "notice"
    /\ pc = "Prompting"
    /\ lower(raw_input) = kw_multiline
    /\ Len(lines_read) = 2

Terminated == pc \in {"Done", "Crashed"}

\* C8: the session ends only by a normal exit: on "exit" (in any case) at the
\* main prompt, and on end of input wherever the driver waits for a line.
C8_EndsNormally ==
    /\ Terminated => (pc = "Done" /\ raised = "none")
    /\ pc = "Done" => lower(raw_input) = kw_exit

IsPermutation(s, t) ==
    /\ Len(s) = Len(t)
    /\ \E p \in Bijections(Len(s)) : \A i \in 1..Len(s) : s[i] = t[p[i]]

\* C10: the first pass of a round is followed by one reshuffle prompt; a
\* choice equal to "random" in any case runs one more pass, on a permutation of
\* the round's items, and no prompt follows it; any other choice runs none;
\* either way the driver is back at the main prompt, after at most two passes.
C10_OneReshuffle ==
    [][ /\ (pc = "AwaitingReshuffleChoice" /\ raised' = "none") =>
              /\ pc' = "Prompting"
              /\ IF lower(choice') = kw_random
                 THEN /\ passes' = 2
                      /\ printed' = "randomized"
                      /\ IsPermutation(input_items', items)
                 ELSE /\ passes' = passes
                      /\ printed' = "nothing"
        /\ pc' = "AwaitingReshuffleChoice" =>
              /\ passes' = 1
              /\ printed' = "versions"
              /\ input_items' = items'
              /\ pc' # pc
        /\ passes' <= 2
        /\ printed' = "versions" => pc' = "AwaitingReshuffleChoice"
      ]_vars

\* "Random" was typed and the second pass ran on the items in another order.
C10_Witness ==
    /\ pc = "Prompting"
    /\ choice = <<"R","a","n","d","o","m">>
    /\ printed = "randomized"
    /\ passes = 2
    /\ items = << <<"c","a","t">>, <<"d","o","g">> >>
    /\ input_items = << <<"d","o","g">>, <<"c","a","t">> >>

====
